---- MODULE Spec2Model ----
(***************************************************************************)
(* kindavm: the HID report encoders (keyboard, mouse, consumer control,    *)
(* system control) and the report transport they write to.                 *)
(*                                                                         *)
(* A report is a sequence of bytes, byte 1 being the report ID.  Characters *)
(* are modelled by their code points.  One encoder call runs at a time;    *)
(* every call of send_report is one step of the model.                     *)
(***************************************************************************)
EXTENDS Integers, Sequences, FiniteSets, TLC

VARIABLES pc, fn, args, loc, i, phase, written, warnings

vars == <<pc, fn, args, loc, i, phase, written, warnings>>

(***************************************************************************)
(* Bounds of the explored inputs.                                          *)
(***************************************************************************)
MaxDrag == 2
MaxCount == 3
MaxTextLen == 4
MaxDelta == 2

(***************************************************************************)
(* Program constants.                                                      *)
(***************************************************************************)
BUTTON_NONE == 0
BUTTON_LEFT == 1
BUTTON_RIGHT == 2
BUTTON_MIDDLE == 4

MOD_NONE == 0
MOD_LEFT_SHIFT == 2

POWER == 1
SLEEP == 2
WAKE == 4

VOLUME_UP == 1
VOLUME_DOWN == 2
MUTE == 4
PLAY_PAUSE == 8
NEXT_TRACK == 16
PREV_TRACK == 32
STOP == 64
BRIGHTNESS_UP == 1
BRIGHTNESS_DOWN == 2
EJECT == 1

\* Code points of the characters the escape substitution is about.
Backslash == 92
Newline == 10
Tab == 9
Backspace == 8

\* KEY_MAP: character -> <<keycode, needs_shift>>
KEY_MAP_dup ==
    (97 :> <<4, FALSE>>) @@ (98 :> <<5, FALSE>>) @@ (99 :> <<6, FALSE>>) @@ (100 :> <<7, FALSE>>) @@
    (101 :> <<8, FALSE>>) @@ (102 :> <<9, FALSE>>) @@ (103 :> <<10, FALSE>>) @@ (104 :> <<11, FALSE>>) @@
    (105 :> <<12, FALSE>>) @@ (106 :> <<13, FALSE>>) @@ (107 :> <<14, FALSE>>) @@ (108 :> <<15, FALSE>>) @@
    (109 :> <<16, FALSE>>) @@ (110 :> <<17, FALSE>>) @@ (111 :> <<18, FALSE>>) @@ (112 :> <<19, FALSE>>) @@
    (113 :> <<20, FALSE>>) @@ (114 :> <<21, FALSE>>) @@ (115 :> <<22, FALSE>>) @@ (116 :> <<23, FALSE>>) @@
    (117 :> <<24, FALSE>>) @@ (118 :> <<25, FALSE>>) @@ (119 :> <<26, FALSE>>) @@ (120 :> <<27, FALSE>>) @@
    (121 :> <<28, FALSE>>) @@ (122 :> <<29, FALSE>>) @@ (65 :> <<4, TRUE>>) @@ (66 :> <<5, TRUE>>) @@
    (67 :> <<6, TRUE>>) @@ (68 :> <<7, TRUE>>) @@ (69 :> <<8, TRUE>>) @@ (70 :> <<9, TRUE>>) @@
    (71 :> <<10, TRUE>>) @@ (72 :> <<11, TRUE>>) @@ (73 :> <<12, TRUE>>) @@ (74 :> <<13, TRUE>>) @@
    (75 :> <<14, TRUE>>) @@ (76 :> <<15, TRUE>>) @@ (77 :> <<16, TRUE>>) @@ (78 :> <<17, TRUE>>) @@
    (79 :> <<18, TRUE>>) @@ (80 :> <<19, TRUE>>) @@ (81 :> <<20, TRUE>>) @@ (82 :> <<21, TRUE>>) @@
    (83 :> <<22, TRUE>>) @@ (84 :> <<23, TRUE>>) @@ (85 :> <<24, TRUE>>) @@ (86 :> <<25, TRUE>>) @@
    (87 :> <<26, TRUE>>) @@ (88 :> <<27, TRUE>>) @@ (89 :> <<28, TRUE>>) @@ (90 :> <<29, TRUE>>) @@
    (49 :> <<30, FALSE>>) @@ (50 :> <<31, FALSE>>) @@ (51 :> <<32, FALSE>>) @@ (52 :> <<33, FALSE>>) @@
    (53 :> <<34, FALSE>>) @@ (54 :> <<35, FALSE>>) @@ (55 :> <<36, FALSE>>) @@ (56 :> <<37, FALSE>>) @@
    (57 :> <<38, FALSE>>) @@ (48 :> <<39, FALSE>>) @@ (33 :> <<30, TRUE>>) @@ (64 :> <<31, TRUE>>) @@
    (35 :> <<32, TRUE>>) @@ (36 :> <<33, TRUE>>) @@ (37 :> <<34, TRUE>>) @@ (94 :> <<35, TRUE>>) @@
    (38 :> <<36, TRUE>>) @@ (42 :> <<37, TRUE>>) @@ (40 :> <<38, TRUE>>) @@ (41 :> <<39, TRUE>>) @@
    (10 :> <<40, FALSE>>) @@ (8 :> <<42, FALSE>>) @@ (9 :> <<43, FALSE>>) @@ (32 :> <<44, FALSE>>) @@
    (45 :> <<45, FALSE>>) @@ (95 :> <<45, FALSE>>) @@ (61 :> <<46, FALSE>>) @@ (43 :> <<46, TRUE>>) @@
    (91 :> <<47, FALSE>>) @@ (123 :> <<47, TRUE>>) @@ (93 :> <<48, FALSE>>) @@ (125 :> <<48, TRUE>>) @@
    (92 :> <<49, FALSE>>) @@ (124 :> <<49, TRUE>>) @@ (59 :> <<51, FALSE>>) @@ (58 :> <<51, TRUE>>) @@
    (39 :> <<52, FALSE>>) @@ (34 :> <<52, TRUE>>) @@ (96 :> <<53, FALSE>>) @@ (126 :> <<53, TRUE>>) @@
    (44 :> <<54, FALSE>>) @@ (60 :> <<54, TRUE>>) @@ (46 :> <<55, FALSE>>) @@ (62 :> <<55, TRUE>>) @@
    (47 :> <<56, FALSE>>) @@ (63 :> <<56, TRUE>>)

KEY_MAP ==
    (97 :> <<4, FALSE>>) @@ (98 :> <<5, FALSE>>) @@ (99 :> <<6, FALSE>>) @@ (100 :> <<7, FALSE>>) @@
    (101 :> <<8, FALSE>>) @@ (102 :> <<9, FALSE>>) @@ (103 :> <<10, FALSE>>) @@ (104 :> <<11, FALSE>>) @@
    (105 :> <<12, FALSE>>) @@ (106 :> <<13, FALSE>>) @@ (107 :> <<14, FALSE>>) @@ (108 :> <<15, FALSE>>) @@
    (109 :> <<16, FALSE>>) @@ (110 :> <<17, FALSE>>) @@ (111 :> <<18, FALSE>>) @@ (112 :> <<19, FALSE>>) @@
    (113 :> <<20, FALSE>>) @@ (114 :> <<21, FALSE>>) @@ (115 :> <<22, FALSE>>) @@ (116 :> <<23, FALSE>>) @@
    (117 :> <<24, FALSE>>) @@ (118 :> <<25, FALSE>>) @@ (119 :> <<26, FALSE>>) @@ (120 :> <<27, FALSE>>) @@
    (121 :> <<28, FALSE>>) @@ (122 :> <<29, FALSE>>) @@ (65 :> <<4, TRUE>>) @@ (66 :> <<5, TRUE>>) @@
    (67 :> <<6, TRUE>>) @@ (68 :> <<7, TRUE>>) @@ (69 :> <<8, TRUE>>) @@ (70 :> <<9, TRUE>>) @@
    (71 :> <<10, TRUE>>) @@ (72 :> <<11, TRUE>>) @@ (73 :> <<12, TRUE>>) @@ (74 :> <<13, TRUE>>) @@
    (75 :> <<14, TRUE>>) @@ (76 :> <<15, TRUE>>) @@ (77 :> <<16, TRUE>>) @@ (78 :> <<17, TRUE>>) @@
    (79 :> <<18, TRUE>>) @@ (80 :> <<19, TRUE>>) @@ (81 :> <<20, TRUE>>) @@ (82 :> <<21, TRUE>>) @@
    (83 :> <<22, TRUE>>) @@ (84 :> <<23, TRUE>>) @@ (85 :> <<24, TRUE>>) @@ (86 :> <<25, TRUE>>) @@
    (87 :> <<26, TRUE>>) @@ (88 :> <<27, TRUE>>) @@ (89 :> <<28, TRUE>>) @@ (90 :> <<29, TRUE>>) @@
    (49 :> <<30, FALSE>>) @@ (50 :> <<31, FALSE>>) @@ (51 :> <<32, FALSE>>) @@ (52 :> <<33, FALSE>>) @@
    (53 :> <<34, FALSE>>) @@ (54 :> <<35, FALSE>>) @@ (55 :> <<36, FALSE>>) @@ (56 :> <<37, FALSE>>) @@
    (57 :> <<38, FALSE>>) @@ (48 :> <<39, FALSE>>) @@ (33 :> <<30, TRUE>>) @@ (64 :> <<31, TRUE>>) @@
    (35 :> <<32, TRUE>>) @@ (36 :> <<33, TRUE>>) @@ (37 :> <<34, TRUE>>) @@ (94 :> <<35, TRUE>>) @@
    (38 :> <<36, TRUE>>) @@ (42 :> <<37, TRUE>>) @@ (40 :> <<38, TRUE>>) @@ (41 :> <<39, TRUE>>) @@
    (10 :> <<40, FALSE>>) @@ (8 :> <<42, FALSE>>) @@ (9 :> <<43, FALSE>>) @@ (32 :> <<44, FALSE>>) @@
    (45 :> <<45, FALSE>>) @@ (95 :> <<45, TRUE>>) @@ (61 :> <<46, FALSE>>) @@ (43 :> <<46, TRUE>>) @@
    (91 :> <<47, FALSE>>) @@ (123 :> <<47, TRUE>>) @@ (93 :> <<48, FALSE>>) @@ (125 :> <<48, TRUE>>) @@
    (92 :> <<49, FALSE>>) @@ (124 :> <<49, TRUE>>) @@ (59 :> <<51, FALSE>>) @@ (58 :> <<51, TRUE>>) @@
    (39 :> <<52, FALSE>>) @@ (34 :> <<52, TRUE>>) @@ (96 :> <<53, FALSE>>) @@ (126 :> <<53, TRUE>>) @@
    (44 :> <<54, FALSE>>) @@ (60 :> <<54, TRUE>>) @@ (46 :> <<55, FALSE>>) @@ (62 :> <<55, TRUE>>) @@
    (47 :> <<56, FALSE>>) @@ (63 :> <<56, TRUE>>)

Min(a, b) == IF a <= b THEN a ELSE b

Max(a, b) == IF a >= b THEN a ELSE b

Abs(a) == IF a < 0 THEN -a ELSE a

Sign(a) == IF a < 0 THEN -1 ELSE IF a > 0 THEN 1 ELSE 0

(***************************************************************************)
(* Python floats (IEEE 754 binary64), as far as drag uses them: true       *)
(* division of two ints, the product of an int and a float, and int() of a *)
(* float.  A non-zero float is sign * 1.f * 2^exp; its 52 fraction bits f  *)
(* are kept as four 13-bit limbs, most significant first, so that no       *)
(* number of the model leaves the range of the model checker's integers.   *)
(***************************************************************************)
LimbBits == 13

Limb == 2 ^ LimbBits

FloatZero == [sign |-> 0, exp |-> 0, frac |-> <<0, 0, 0, 0>>]

\* frac + 1 in its last place, as <<frac, carry out>>
IncFrac(f) ==
    IF f[4] + 1 < Limb THEN <<[f EXCEPT ![4] = f[4] + 1], 0>>
    ELSE IF f[3] + 1 < Limb THEN <<[f EXCEPT ![4] = 0, ![3] = f[3] + 1], 0>>
    ELSE IF f[2] + 1 < Limb THEN <<[f EXCEPT ![4] = 0, ![3] = 0, ![2] = f[2] + 1], 0>>
    ELSE IF f[1] + 1 < Limb THEN <<(<<f[1] + 1, 0, 0, 0>>), 0>>
    ELSE <<(<<0, 0, 0, 0>>), 1>>

\* round to nearest, ties to even: up tells whether the discarded rest is
\* above one half of the last place, tie whether it is exactly one half
RoundNearestEven(sign, e, f, up, tie) ==
    IF up \/ (tie /\ f[4] % 2 = 1)
    THEN LET inc == IncFrac(f)
         IN  [sign |-> sign, exp |-> e + inc[2], frac |-> inc[1]]
    ELSE [sign |-> sign, exp |-> e, frac |-> f]

\* <<n', d', e>> with n / d = (n' / d') * 2^e and d' <= n' < 2d'
RECURSIVE Normalise(_, _, _)
Normalise(n, d, e) ==
    IF n < d THEN Normalise(2 * n, d, e - 1)
    ELSE IF n >= 2 * d THEN Normalise(n, 2 * d, e + 1)
    ELSE <<n, d, e>>

\* a / b of two ints, b > 0 (x / steps): long division, one limb at a time
float_div(a, b) ==
    IF a = 0 THEN FloatZero
    ELSE LET nd == Normalise(Abs(a), b, 0)
             d == nd[2]
             r0 == nd[1] - d
             t1 == r0 * Limb
             t2 == (t1 % d) * Limb
             t3 == (t2 % d) * Limb
             t4 == (t3 % d) * Limb
             rest == 2 * (t4 % d)
         IN  RoundNearestEven(Sign(a), nd[3],
                              <<t1 \div d, t2 \div d, t3 \div d, t4 \div d>>,
                              rest > d, rest = d)

\* the h with 2^h <= n < 2^(h+1)
RECURSIVE Log2(_)
Log2(n) == IF n < 2 THEN 0 ELSE 1 + Log2(n \div 2)

\* k * f of an int and a float ((i + 1) * x_step): the exact product
\* head.p1 p2 p3 p4, shifted right by h bits to a leading 1, then rounded
float_mul(k, f) ==
    IF k = 0 \/ f.sign = 0 THEN FloatZero
    ELSE LET m == Abs(k)
             u4 == m * f.frac[4]
             u3 == m * f.frac[3] + u4 \div Limb
             u2 == m * f.frac[2] + u3 \div Limb
             u1 == m * f.frac[1] + u2 \div Limb
             head == m + u1 \div Limb
             p == <<u1 % Limb, u2 % Limb, u3 % Limb, u4 % Limb>>
             h == Log2(head)
             lo == 2 ^ h
             hi == 2 ^ (LimbBits - h)
             shifted == <<(head % lo) * hi + p[1] \div lo,
                          (p[1] % lo) * hi + p[2] \div lo,
                          (p[2] % lo) * hi + p[3] \div lo,
                          (p[3] % lo) * hi + p[4] \div lo>>
             rest == 2 * (p[4] % lo)
         IN  RoundNearestEven(Sign(k) * f.sign, f.exp + h, shifted, rest > lo, h > 0 /\ rest = lo)

\* int(f): truncation towards zero (floats below 2^27)
int_trunc(f) ==
    IF f.sign = 0 \/ f.exp < 0 THEN 0
    ELSE IF f.exp <= LimbBits
         THEN f.sign * (2 ^ f.exp + f.frac[1] \div 2 ^ (LimbBits - f.exp))
         ELSE f.sign * ((Limb + f.frac[1]) * 2 ^ (f.exp - LimbBits)
                            + f.frac[2] \div 2 ^ (2 * LimbBits - f.exp))

(***************************************************************************)
(* mouse.py helpers                                                        *)
(***************************************************************************)
clamp_movement_wide(value) == Max(-128, Min(127, value))

clamp_movement(value) == Max(-127, Min(127, value))

button_map_swapped == ("left" :> BUTTON_LEFT) @@ ("right" :> BUTTON_MIDDLE) @@ ("middle" :> BUTTON_RIGHT)

button_map_extra ==
    ("left" :> BUTTON_LEFT) @@ ("right" :> BUTTON_RIGHT) @@ ("middle" :> BUTTON_MIDDLE) @@ ("side" :> 8)

button_map == ("left" :> BUTTON_LEFT) @@ ("right" :> BUTTON_RIGHT) @@ ("middle" :> BUTTON_MIDDLE)

\* _button_to_bits raises ValueError
button_raises(button) == button \notin DOMAIN button_map

\* bytes([...]) raises ValueError unless every element is in range(256)
IsBytes(report) == \A k \in 1..Len(report) : report[k] \in 0..255

mouse_report_short(buttons, x, y, wheel) ==
    <<4, buttons, clamp_movement(x) % 256, clamp_movement(y) % 256>>

\* the report send_mouse_report builds
mouse_report(buttons, x, y, wheel) ==
    <<4, buttons, clamp_movement(x) % 256, clamp_movement(y) % 256, clamp_movement(wheel) % 256>>

drag_steps_plus(x, y) == Max(Abs(x), Abs(y)) + 1

drag_steps_half(x, y) == Max(Max(Abs(x), Abs(y)) \div 2, 1)

\* steps of drag
drag_steps(x, y) ==
    LET steps == Max(Abs(x), Abs(y)) IN IF steps = 0 THEN 1 ELSE steps

\* step_x (step_y) of drag at loop index k, for the total a
drag_step(a, steps, k) ==
    LET a_step == float_div(a, steps)
    IN  int_trunc(float_mul(k + 1, a_step)) - int_trunc(float_mul(k, a_step))

(***************************************************************************)
(* keyboard.py helpers                                                     *)
(***************************************************************************)
key_press(keycode, modifier) == <<1, modifier, 0, keycode, 0, 0, 0, 0, 0>>

key_release == <<1, 0, 0, 0, 0, 0, 0, 0, 0>>

key_modifier_none(needs_shift) == MOD_NONE

key_modifier(needs_shift) == IF needs_shift THEN MOD_LEFT_SHIFT ELSE MOD_NONE

\* str.replace(old, new): every non-overlapping occurrence, left to right
RECURSIVE replace(_, _, _)
replace(s, old, new) ==
    IF Len(s) < Len(old) THEN s
    ELSE IF SubSeq(s, 1, Len(old)) = old
         THEN new \o replace(SubSeq(s, Len(old) + 1, Len(s)), old, new)
         ELSE <<s[1]>> \o replace(Tail(s), old, new)

escape_substitution_two(text) ==
    replace(replace(text, <<Backslash, 110>>, <<Newline>>), <<Backslash, 116>>, <<Tab>>)

\* text.replace("\\n", "\n").replace("\\t", "\t").replace("\\b", "\b")
escape_substitution(text) ==
    replace(replace(replace(text, <<Backslash, 110>>, <<Newline>>),
                    <<Backslash, 116>>, <<Tab>>),
            <<Backslash, 98>>, <<Backspace>>)

(***************************************************************************)
(* consumer.py and system.py helpers                                       *)
(***************************************************************************)
consumer_press(byte1, byte2, byte3) == <<2, byte1, byte2, byte3>>

consumer_release == <<2, 0, 0, 0>>

\* the named consumer actions and the bytes they pass to send_consumer_key
consumer_actions ==
    ("volume_up" :> <<VOLUME_UP, 0, 0>>) @@ ("volume_down" :> <<VOLUME_DOWN, 0, 0>>) @@
    ("mute" :> <<MUTE, 0, 0>>) @@ ("play_pause" :> <<PLAY_PAUSE, 0, 0>>) @@
    ("next_track" :> <<NEXT_TRACK, 0, 0>>) @@ ("prev_track" :> <<PREV_TRACK, 0, 0>>) @@
    ("stop" :> <<STOP, 0, 0>>) @@ ("brightness_up" :> <<0, BRIGHTNESS_UP, 0>>) @@
    ("brightness_down" :> <<0, BRIGHTNESS_DOWN, 0>>) @@ ("eject" :> <<0, 0, EJECT>>)

system_press(buttons) == <<3, buttons>>

system_release_stuck == <<3, 1>>

system_release == <<3, 0>>

\* the named system actions and the bits they pass to send_system_key
system_actions == ("power" :> POWER) @@ ("sleep" :> SLEEP) @@ ("wake" :> WAKE)

(***************************************************************************)
(* Inputs                                                                  *)
(***************************************************************************)
KeycodeInputs == {-1, 0, 4, 40, 41, 82, 255, 256}

ModifierInputs == {0, 2, 128, 256}

ByteInputs == {0, 1, 128, 256}

ButtonInputs == {"left", "right", "middle", "side", ""}

AxisInputs == (-MaxDelta..MaxDelta) \cup {-200, -129, -128, -127, 127, 128, 129, 200}

ButtonsInputs == {0, 5, 256}

DragInputs == (-MaxDrag..MaxDrag) \cup {-15, 3, 10, 15, 22}

\* totals beyond the range of one report
LongDrags == {<<130, -15>>, <<-3, -130>>}

CountInputs == -1..MaxCount

\* backslash, 'n', 't', 'b', 'A' (shifted) and e-acute (not in the keymap)
TextAlphabet == {Backslash, 110, 116, 98, 65, 233}

RECURSIVE SeqsUpTo(_, _)
SeqsUpTo(S, n) ==
    IF n = 0 THEN {<<>>}
    ELSE LET shorter == SeqsUpTo(S, n - 1)
         IN  shorter \cup {Append(s, c) : s \in shorter, c \in S}

\* every single character of the keymap, three characters outside it, and
\* all short texts over TextAlphabet
TextInputs ==
    {<<c>> : c \in DOMAIN KEY_MAP \cup {0, 127, 233}} \cup SeqsUpTo(TextAlphabet, MaxTextLen)

ZeroArgs ==
    [keycode |-> 0, modifier |-> 0, text |-> <<>>, buttons |-> 0, x |-> 0, y |-> 0,
     wheel |-> 0, button |-> "left", count |-> 0, byte1 |-> 0, byte2 |-> 0, byte3 |-> 0]

ZeroLoc == [button_bits |-> 0, text |-> <<>>]

(***************************************************************************)
(* State                                                                   *)
(*   pc       "idle": no call; "running": inside an encoder; "done": the   *)
(*            call returned; "raised": ValueError before a write;          *)
(*            "failed": the transport raised (OSError)                     *)
(*   fn, args the encoder called and its arguments                         *)
(*   loc      its locals (button_bits; text after the escape substitution) *)
(*   i, phase its loop index and its position between two send_report     *)
(*   written  the reports the device received from this call, in order     *)
(*   warnings the characters type_string reported on stderr as skipped     *)
(***************************************************************************)
Init ==
    /\ pc = "idle"
    /\ fn = "none"
    /\ args = ZeroArgs
    /\ loc = ZeroLoc
    /\ i = 0
    /\ phase = 0
    /\ written = <<>>
    /\ warnings = <<>>

\* entry of an encoder
Enter(f, a, l, p) ==
    /\ pc' = p
    /\ fn' = f
    /\ args' = a
    /\ loc' = l
    /\ i' = 0
    /\ phase' = 0
    /\ written' = <<>>
    /\ warnings' = <<>>

send_report_swallow(report, returns, i2, phase2) ==
    /\ pc = "running"
    /\ UNCHANGED <<fn, args, loc, warnings>>
    /\ \E data \in {report} :
          \/ /\ ~IsBytes(data)
             /\ pc' = "raised"
             /\ UNCHANGED <<written, i, phase>>
          \/ /\ IsBytes(data)
             /\ written' = Append(written, data)
             /\ pc' = IF returns THEN "done" ELSE "running"
             /\ i' = i2
             /\ phase' = phase2
          \/ /\ IsBytes(data)
             /\ written' = written
             /\ pc' = IF returns THEN "done" ELSE "running"
             /\ i' = i2
             /\ phase' = phase2

\* report = bytes([...]); send_report(report): the bytes are built (or
\* ValueError), then written to the device (or OSError); after the write the
\* encoder is at loop index i2 and position phase2, or has returned.
send_report(report, returns, i2, phase2) ==
    /\ pc = "running"
    /\ UNCHANGED <<fn, args, loc, warnings>>
    /\ \E data \in {report} :
          \/ /\ ~IsBytes(data)
             /\ pc' = "raised"
             /\ UNCHANGED <<written, i, phase>>
          \/ /\ IsBytes(data)
             /\ written' = Append(written, data)
             /\ pc' = IF returns THEN "done" ELSE "running"
             /\ i' = i2
             /\ phase' = phase2
          \/ /\ IsBytes(data)
             /\ pc' = "failed"
             /\ UNCHANGED <<written, i, phase>>

(***************************************************************************)
(* keyboard.py                                                             *)
(***************************************************************************)
CallSendKey ==
    /\ pc = "idle"
    /\ \E keycode \in KeycodeInputs, modifier \in ModifierInputs :
           Enter("send_key", [ZeroArgs EXCEPT !.keycode = keycode, !.modifier = modifier],
                 ZeroLoc, "running")

send_key ==
    /\ fn = "send_key"
    /\ IF phase = 0
       THEN send_report(key_press(args.keycode, args.modifier), FALSE, i, 1)
       ELSE send_report(key_release, TRUE, i, 0)

CallTypeString ==
    /\ pc = "idle"
    /\ \E text \in TextInputs :
           LET substituted == escape_substitution(text)
           IN  Enter("type_string", [ZeroArgs EXCEPT !.text = text],
                     [ZeroLoc EXCEPT !.text = substituted],
                     IF substituted = <<>> THEN "done" ELSE "running")

\* type_string, a character that is not in KEY_MAP: warning, continue
type_string_skip ==
    /\ pc = "running"
    /\ fn = "type_string"
    /\ loc.text[i + 1] \notin DOMAIN KEY_MAP
    /\ warnings' = Append(warnings, loc.text[i + 1])
    /\ i' = i + 1
    /\ pc' = IF i + 1 = Len(loc.text) THEN "done" ELSE "running"
    /\ UNCHANGED <<fn, args, loc, phase, written>>

\* type_string, a character of KEY_MAP: send_key(keycode, modifier)
type_string_key ==
    /\ pc = "running"
    /\ fn = "type_string"
    /\ loc.text[i + 1] \in DOMAIN KEY_MAP
    /\ LET keycode == KEY_MAP[loc.text[i + 1]][1]
           needs_shift == KEY_MAP[loc.text[i + 1]][2]
       IN  IF phase = 0
           THEN send_report(key_press(keycode, key_modifier(needs_shift)), FALSE, i, 1)
           ELSE send_report(key_release, i + 1 = Len(loc.text), i + 1, 0)

(***************************************************************************)
(* mouse.py                                                                *)
(***************************************************************************)
CallSendMouseReport ==
    /\ pc = "idle"
    /\ \E buttons \in ButtonsInputs, x \in AxisInputs, y \in AxisInputs, wheel \in AxisInputs :
           Enter("send_mouse_report",
                 [ZeroArgs EXCEPT !.buttons = buttons, !.x = x, !.y = y, !.wheel = wheel],
                 ZeroLoc, "running")

send_mouse_report ==
    /\ fn = "send_mouse_report"
    /\ send_report(mouse_report(args.buttons, args.x, args.y, args.wheel), TRUE, i, 0)

CallMove ==
    /\ pc = "idle"
    /\ \E x \in AxisInputs, y \in AxisInputs :
           Enter("move", [ZeroArgs EXCEPT !.x = x, !.y = y], ZeroLoc, "running")

move ==
    /\ fn = "move"
    /\ send_report(mouse_report(0, args.x, args.y, 0), TRUE, i, 0)

CallScroll ==
    /\ pc = "idle"
    /\ \E amount \in AxisInputs :
           Enter("scroll", [ZeroArgs EXCEPT !.wheel = amount], ZeroLoc, "running")

scroll ==
    /\ fn = "scroll"
    /\ send_report(mouse_report(0, 0, 0, args.wheel), TRUE, i, 0)

\* click up to its loop: button_bits = _button_to_bits(button); range(count)
CallClick ==
    /\ pc = "idle"
    /\ \E button \in ButtonInputs, count \in CountInputs :
           LET a == [ZeroArgs EXCEPT !.button = button, !.count = count]
           IN  IF button_raises(button)
               THEN Enter("click", a, ZeroLoc, "raised")
               ELSE Enter("click", a, [ZeroLoc EXCEPT !.button_bits = button_map[button]],
                          IF count <= 0 THEN "done" ELSE "running")

click ==
    /\ fn = "click"
    /\ IF phase = 0
       THEN send_report(mouse_report(loc.button_bits, 0, 0, 0), FALSE, i, 1)
       ELSE send_report(mouse_report(0, 0, 0, 0), i + 1 = args.count, i + 1, 0)

\* drag up to its first report: button_bits = _button_to_bits(button)
CallDrag ==
    /\ pc = "idle"
    /\ \E xy \in (DragInputs \X DragInputs) \cup LongDrags, button \in ButtonInputs :
           LET a == [ZeroArgs EXCEPT !.x = xy[1], !.y = xy[2], !.button = button]
           IN  IF button_raises(button)
               THEN Enter("drag", a, ZeroLoc, "raised")
               ELSE Enter("drag", a, [ZeroLoc EXCEPT !.button_bits = button_map[button]],
                          "running")

\* drag: press button (phase 0)
drag_press ==
    /\ fn = "drag"
    /\ phase = 0
    /\ send_report(mouse_report(loc.button_bits, 0, 0, 0), FALSE, 0, 1)

\* drag: move with button held (phase 1), loop index i
drag_move ==
    /\ fn = "drag"
    /\ phase = 1
    /\ LET steps == drag_steps(args.x, args.y)
           step_x == drag_step(args.x, steps, i)
           step_y == drag_step(args.y, steps, i)
       IN  send_report(mouse_report(loc.button_bits, step_x, step_y, 0), FALSE, i + 1,
                       IF i + 1 = steps THEN 2 ELSE 1)

\* drag: release button (phase 2)
drag_release ==
    /\ fn = "drag"
    /\ phase = 2
    /\ send_report(mouse_report(0, 0, 0, 0), TRUE, i, 0)

(***************************************************************************)
(* consumer.py                                                             *)
(***************************************************************************)
CallSendConsumerKey ==
    /\ pc = "idle"
    /\ \E byte1 \in ByteInputs, byte2 \in ByteInputs, byte3 \in ByteInputs :
           Enter("send_consumer_key",
                 [ZeroArgs EXCEPT !.byte1 = byte1, !.byte2 = byte2, !.byte3 = byte3],
                 ZeroLoc, "running")

\* volume_up() ... eject(): send_consumer_key with one bit set
CallConsumerAction ==
    /\ pc = "idle"
    /\ \E name \in DOMAIN consumer_actions :
           Enter(name,
                 [ZeroArgs EXCEPT !.byte1 = consumer_actions[name][1],
                                  !.byte2 = consumer_actions[name][2],
                                  !.byte3 = consumer_actions[name][3]],
                 ZeroLoc, "running")

send_consumer_key ==
    /\ fn \in {"send_consumer_key"} \cup DOMAIN consumer_actions
    /\ IF phase = 0
       THEN send_report(consumer_press(args.byte1, args.byte2, args.byte3), FALSE, i, 1)
       ELSE send_report(consumer_release, TRUE, i, 0)

(***************************************************************************)
(* system.py                                                               *)
(***************************************************************************)
CallSendSystemKey ==
    /\ pc = "idle"
    /\ \E buttons \in ByteInputs :
           Enter("send_system_key", [ZeroArgs EXCEPT !.buttons = buttons], ZeroLoc, "running")

\* power(), sleep(), wake()
CallSystemAction ==
    /\ pc = "idle"
    /\ \E name \in DOMAIN system_actions :
           Enter(name, [ZeroArgs EXCEPT !.buttons = system_actions[name]], ZeroLoc, "running")

send_system_key ==
    /\ fn \in {"send_system_key"} \cup DOMAIN system_actions
    /\ IF phase = 0
       THEN send_report(system_press(args.buttons), FALSE, i, 1)
       ELSE send_report(system_release, TRUE, i, 0)

\* the call is over (returned or raised); the encoders keep no state
Return ==
    /\ pc \in {"done", "raised", "failed"}
    /\ pc' = "idle"
    /\ fn' = "none"
    /\ args' = ZeroArgs
    /\ loc' = ZeroLoc
    /\ i' = 0
    /\ phase' = 0
    /\ written' = <<>>
    /\ warnings' = <<>>

Next ==
    \/ CallSendKey
    \/ send_key
    \/ CallTypeString
    \/ type_string_skip
    \/ type_string_key
    \/ CallSendMouseReport
    \/ send_mouse_report
    \/ CallMove
    \/ move
    \/ CallScroll
    \/ scroll
    \/ CallClick
    \/ click
    \/ CallDrag
    \/ drag_press
    \/ drag_move
    \/ drag_release
    \/ CallSendConsumerKey
    \/ CallConsumerAction
    \/ send_consumer_key
    \/ CallSendSystemKey
    \/ CallSystemAction
    \/ send_system_key
    \/ Return

Spec == Init /\ [][Next]_vars

(***************************************************************************)
(* Vocabulary of the properties                                            *)
(***************************************************************************)
\* the signed value of an axis byte
Signed(b) == IF b >= 128 THEN b - 256 ELSE b

\* r is the release frame of a: same length, same report ID, zero elsewhere
IsReleaseOf(r, a) ==
    /\ Len(r) = Len(a)
    /\ r[1] = a[1]
    /\ \A k \in 2..Len(r) : r[k] = 0

IsActive(r) == \E k \in 2..Len(r) : r[k] # 0

BitOf(button) ==
    CASE button = "left" -> 1
      [] button = "right" -> 2
      [] button = "middle" -> 4

\* integer division truncating towards zero
TruncDiv(a, b) == Sign(a) * (Abs(a) \div b)

RECURSIVE SumAxis(_, _, _, _)
SumAxis(reports, from, to, byte) ==
    IF from > to THEN 0
    ELSE Signed(reports[from][byte]) + SumAxis(reports, from + 1, to, byte)

PairFns ==
    {"send_key", "send_consumer_key", "send_system_key"}
        \cup DOMAIN consumer_actions \cup DOMAIN system_actions

\* C1 (as stated): when an encoder call has returned, every active report it
\* wrote is followed in its stream by a release report of the same length
\* and report ID whose other bytes are zero.
C1_EveryActiveReleased ==
    pc = "done" /\ fn \in PairFns \cup {"move", "click", "scroll", "drag"} =>
        \A k \in 1..Len(written) :
            IsActive(written[k]) =>
                \E j \in (k + 1)..Len(written) : IsReleaseOf(written[j], written[k])

\* C1 (amended): send_key, send_consumer_key, send_system_key and their named
\* actions write one active report and then its release report; click
\* writes such pairs; drag ends with a release report matching all its
\* reports; move and scroll write one report with no buttons and no release.
C1_PressThenRelease ==
    pc = "done" =>
        /\ fn \in PairFns =>
              Len(written) = 2 /\ IsReleaseOf(written[2], written[1])
        /\ fn = "click" =>
              /\ Len(written) % 2 = 0
              /\ \A k \in 1..Len(written) :
                    k % 2 = 1 => IsReleaseOf(written[k + 1], written[k])
        /\ fn = "drag" =>
              /\ ~IsActive(written[Len(written)])
              /\ \A k \in 1..Len(written) : IsReleaseOf(written[Len(written)], written[k])
        /\ fn \in {"move", "scroll"} =>
              Len(written) = 1 /\ written[1][2] = 0

C1_Witness ==
    /\ pc = "done"
    /\ fn = "send_key"
    /\ written = <<(<<1, 2, 0, 4, 0, 0, 0, 0, 0>>), (<<1, 0, 0, 0, 0, 0, 0, 0, 0>>)>>

\* C2: when drag(x, y, button) has returned, the x deltas of its move reports
\* sum to x and the y deltas to y, the delta of axis a at step k being
\* trunc(a*(k+1)/steps) - trunc(a*k/steps).
C2_DragSumsExact ==
    pc = "done" /\ fn = "drag" =>
        LET steps == Max(Max(Abs(args.x), Abs(args.y)), 1)
        IN  /\ SumAxis(written, 2, Len(written) - 1, 3) = args.x
            /\ SumAxis(written, 2, Len(written) - 1, 4) = args.y
            /\ \A k \in 0..(Len(written) - 3) :
                  /\ Signed(written[k + 2][3]) =
                        TruncDiv(args.x * (k + 1), steps) - TruncDiv(args.x * k, steps)
                  /\ Signed(written[k + 2][4]) =
                        TruncDiv(args.y * (k + 1), steps) - TruncDiv(args.y * k, steps)

\* C3: drag writes the press report, then steps = max(|x|, |y|, 1) move
\* reports carrying the button bit and wheel 0, then the release report, in
\* this order: steps + 2 reports when it has returned.
C3_DragReportOrder ==
    fn = "drag" /\ pc # "raised" =>
        LET steps == Max(Max(Abs(args.x), Abs(args.y)), 1)
            bit == BitOf(args.button)
        IN  /\ Len(written) <= steps + 2
            /\ pc = "done" => Len(written) = steps + 2
            /\ \A k \in 1..Len(written) :
                  /\ k = 1 => written[k] = <<4, bit, 0, 0, 0>>
                  /\ k \in 2..(steps + 1) =>
                        /\ Len(written[k]) = 5
                        /\ written[k][1] = 4
                        /\ written[k][2] = bit
                        /\ written[k][5] = 0
                  /\ k = steps + 2 => written[k] = <<4, 0, 0, 0, 0>>

C3_Witness ==
    /\ pc = "done"
    /\ fn = "drag"
    /\ args.x = 10
    /\ args.y = 3
    /\ args.button = "left"
    /\ Len(written) = 12

\* C4: click(button, count) with a valid button and count >= 0 writes 2*count
\* reports, press [4, bit(button), 0, 0, 0] and release [4, 0, 0, 0, 0]
\* alternating, press first.
C4_ClickReports ==
    fn = "click" /\ pc # "raised" /\ args.count >= 0 =>
        /\ Len(written) <= 2 * args.count
        /\ pc = "done" => Len(written) = 2 * args.count
        /\ \A k \in 1..Len(written) :
              written[k] = IF k % 2 = 1 THEN <<4, BitOf(args.button), 0, 0, 0>>
                           ELSE <<4, 0, 0, 0, 0>>

C4_Witness ==
    /\ pc = "done"
    /\ fn = "click"
    /\ args.button = "right"
    /\ args.count = 3
    /\ Len(written) = 6

\* C5: click and drag with a button name other than left, right, middle
\* raise the validation error, and no report has been written.
C5_InvalidButtonNoWrite ==
    fn \in {"click", "drag"} /\ args.button \notin {"left", "right", "middle"} =>
        pc = "raised" /\ written = <<>>

C5_Witness ==
    /\ pc = "raised"
    /\ fn = "drag"
    /\ args.button = "side"
    /\ args.x = 10
    /\ written = <<>>

RECURSIVE ExpectedKeyReports(_)
ExpectedKeyReports(text) ==
    IF text = <<>> THEN <<>>
    ELSE LET c == text[1]
         IN  (IF c \in DOMAIN KEY_MAP
              THEN <<(<<1, IF KEY_MAP[c][2] THEN 2 ELSE 0, 0, KEY_MAP[c][1], 0, 0, 0, 0, 0>>),
                     (<<1, 0, 0, 0, 0, 0, 0, 0, 0>>)>>
              ELSE <<>>) \o ExpectedKeyReports(Tail(text))

IsMapped(c) == c \in DOMAIN KEY_MAP

IsUnmapped(c) == c \notin DOMAIN KEY_MAP

\* C6: type_string writes one press/release pair per character of the
\* substituted text that is in the keymap, in order, with left shift exactly
\* for the characters that need it; the other characters write nothing and
\* do not stop the typing: 2 * (number of mapped characters) reports.
C6_TypeStringReports ==
    pc = "done" /\ fn = "type_string" =>
        /\ written = ExpectedKeyReports(loc.text)
        /\ Len(written) = 2 * Len(SelectSeq(loc.text, IsMapped))
        /\ warnings = SelectSeq(loc.text, IsUnmapped)

C6_Witness ==
    /\ pc = "done"
    /\ fn = "type_string"
    /\ args.text = <<65, 233, 110>>
    /\ Len(written) = 4
    /\ written[1][2] = 2
    /\ written[3][4] = 17

\* one left-to-right pass rewriting backslash+n, backslash+t, backslash+b
RECURSIVE SinglePassEscape(_)
SinglePassEscape(s) ==
    IF Len(s) >= 2 /\ s[1] = 92 /\ s[2] \in {110, 116, 98}
    THEN <<(CASE s[2] = 110 -> 10 [] s[2] = 116 -> 9 [] s[2] = 98 -> 8)>>
             \o SinglePassEscape(SubSeq(s, 3, Len(s)))
    ELSE IF s = <<>> THEN <<>>
    ELSE <<s[1]>> \o SinglePassEscape(Tail(s))

\* C7: the text type_string iterates is the single left-to-right pass over
\* its argument, and for the argument backslash,n it writes exactly the
\* press/release pair of keycode 0x28.
C7_EscapeSinglePass ==
    fn = "type_string" =>
        /\ loc.text = SinglePassEscape(args.text)
        /\ pc = "done" /\ args.text = <<92, 110>> =>
              written = <<(<<1, 0, 0, 40, 0, 0, 0, 0, 0>>), (<<1, 0, 0, 0, 0, 0, 0, 0, 0>>)>>

C7_Witness ==
    /\ pc = "done"
    /\ fn = "type_string"
    /\ args.text = <<92, 110, 92, 98>>
    /\ loc.text = <<10, 8>>
    /\ Len(written) = 4

\* C8: every report written has the length of its report ID (9 for 0x01, 4
\* for 0x02, 2 for 0x03, 5 for 0x04) and no other report ID is written.
C8_ReportLengths ==
    \A k \in 1..Len(written) :
        /\ written[k][1] \in {1, 2, 3, 4}
        /\ Len(written[k]) = CASE written[k][1] = 1 -> 9
                               [] written[k][1] = 2 -> 4
                               [] written[k][1] = 3 -> 2
                               [] written[k][1] = 4 -> 5

C8_Witness ==
    /\ pc = "done"
    /\ fn = "send_mouse_report"
    /\ args.wheel = -200
    /\ Len(written) = 1
    /\ Len(written[1]) = 5

ClampRef(v) == IF v > 127 THEN 127 ELSE IF v < -127 THEN -127 ELSE v

\* C9: the axis bytes move, scroll and send_mouse_report write are
\* clamp(v) mod 256 with clamp(v) in [-127, 127] and clamp(v) = v in range;
\* scroll(200) writes 127, scroll(-200) writes 129; no axis byte is 0x80.
C9_ClampedAxisBytes ==
    /\ fn \in {"move", "scroll", "send_mouse_report"} =>
          /\ \A v \in {args.x, args.y, args.wheel} :
                /\ clamp_movement(v) \in -127..127
                /\ v \in -127..127 => clamp_movement(v) = v
          /\ \A k \in 1..Len(written) :
                /\ written[k][3] = ClampRef(args.x) % 256
                /\ written[k][4] = ClampRef(args.y) % 256
                /\ written[k][5] = ClampRef(args.wheel) % 256
    /\ fn = "scroll" /\ pc = "done" /\ args.wheel = 200 => written[1][5] = 127
    /\ fn = "scroll" /\ pc = "done" /\ args.wheel = -200 => written[1][5] = 129
    /\ \A k \in 1..Len(written) :
          written[k][1] = 4 => \A b \in 3..Len(written[k]) : written[k][b] # 128

C9_Witness ==
    /\ pc = "done"
    /\ fn = "scroll"
    /\ args.wheel = 200
    /\ written = <<(<<4, 0, 0, 0, 127>>)>>

\* the characters of the keymap a press report stands for
Decode(report) ==
    {c \in DOMAIN KEY_MAP :
        KEY_MAP[c][1] = report[4] /\ (KEY_MAP[c][2] <=> report[2] = 2)}

\* C10: no two characters of KEY_MAP share (keycode, needs_shift): the press
\* report type_string writes for a character of the keymap decodes to that
\* character and no other.
C10_KeymapInjective ==
    pc = "done" /\ fn = "type_string" =>
        LET mapped == SelectSeq(loc.text, IsMapped)
        IN  \A k \in 1..Len(mapped) :
                2 * k - 1 <= Len(written) /\ Decode(written[2 * k - 1]) = {mapped[k]}

C10_Witness ==
    /\ pc = "done"
    /\ fn = "type_string"
    /\ args.text = <<95>>
    /\ written[1] = <<1, 2, 0, 45, 0, 0, 0, 0, 0>>

IsPrefix(s, t) == Len(s) <= Len(t) /\ \A k \in 1..Len(s) : s[k] = t[k]

\* the reports of the running call when no write fails, in order
CallReports ==
    CASE fn = "send_key" ->
             <<(<<1, args.modifier, 0, args.keycode, 0, 0, 0, 0, 0>>),
               (<<1, 0, 0, 0, 0, 0, 0, 0, 0>>)>>
      [] fn = "type_string" -> ExpectedKeyReports(loc.text)
      [] fn = "click" ->
             [k \in 1..(2 * Max(args.count, 0)) |->
                 IF k % 2 = 1 THEN <<4, BitOf(args.button), 0, 0, 0>> ELSE <<4, 0, 0, 0, 0>>]
      [] fn = "drag" ->
             LET steps == Max(Max(Abs(args.x), Abs(args.y)), 1)
             IN  [k \in 1..(steps + 2) |->
                     IF k = 1 THEN <<4, BitOf(args.button), 0, 0, 0>>
                     ELSE IF k = steps + 2 THEN <<4, 0, 0, 0, 0>>
                     ELSE <<4, BitOf(args.button),
                            drag_step(args.x, steps, k - 2) % 256,
                            drag_step(args.y, steps, k - 2) % 256, 0>>]
      [] fn \in {"send_consumer_key"} \cup DOMAIN consumer_actions ->
             <<(<<2, args.byte1, args.byte2, args.byte3>>), (<<2, 0, 0, 0>>)>>
      [] fn \in {"send_system_key"} \cup DOMAIN system_actions ->
             <<(<<3, args.buttons>>), (<<3, 0>>)>>

FailFns ==
    {"send_key", "type_string", "click", "drag", "send_consumer_key", "send_system_key"}
        \cup DOMAIN consumer_actions \cup DOMAIN system_actions

\* C11: when the write of the k-th report of an encoder call fails, the
\* call ends at once: the reports written are exactly its first k-1
\* reports, the failed report is not written again and no later report of
\* the call is written.
C11_FailurePropagates ==
    /\ [](fn \in FailFns /\ pc \in {"running", "failed", "done"} =>
            /\ IsPrefix(written, CallReports)
            /\ pc = "failed" => Len(written) < Len(CallReports)
            /\ pc = "done" => Len(written) = Len(CallReports))
    /\ [][pc' = "failed" => pc = "running" /\ written' = written]_vars
    /\ [][pc = "failed" => pc' = "idle" /\ written' = <<>>]_vars

C11_Witness ==
    /\ pc = "failed"
    /\ fn = "drag"
    /\ args.x = 10
    /\ args.y = 3
    /\ Len(written) = 4
    /\ written[4] = <<4, 1, 1, 0, 0>>

\* C12: every x and y delta of a drag step is -1, 0 or 1, whatever the
\* totals x and y, so that the clamp of send_mouse_report leaves it as it
\* is and its byte does not wrap around.
C12_DragStepsWithinRange ==
    fn = "drag" /\ pc # "raised" =>
        LET steps == drag_steps(args.x, args.y)
        IN  \A k \in {Len(written)} \cap 2..(steps + 1) :
                LET dx == drag_step(args.x, steps, k - 2)
                    dy == drag_step(args.y, steps, k - 2)
                IN  /\ dx \in {-1, 0, 1}
                    /\ dy \in {-1, 0, 1}
                    /\ dx \in -127..127 /\ dy \in -127..127
                    /\ clamp_movement(dx) = dx
                    /\ clamp_movement(dy) = dy
                    /\ Signed(written[k][3]) = dx
                    /\ Signed(written[k][4]) = dy

C12_Witness ==
    /\ pc = "done"
    /\ fn = "drag"
    /\ args.x = 130
    /\ args.y = -15
    /\ Len(written) = 132
    /\ written[131] = <<4, 1, 1, 255, 0>>

====
